---- MODULE Spec2Model ----
(***************************************************************************)
(* Realtime notification subsystem of ConversationMessagesClient           *)
(* (sdk/communication/communication-messages-rest/src/                     *)
(* conversationMessagesClient.ts).                                         *)
(*                                                                         *)
(* The client owns a signaling transport (or none), one boolean flag       *)
(* isRealtimeNotificationsStarted and a Node EventEmitter.  start/stop are *)
(* async functions: each runs synchronously to its `await`, is suspended   *)
(* while the transport works, and is resumed (or thrown into) when the     *)
(* transport settles the promise; the continuation runs in the microtask   *)
(* that follows the settlement, so settling and resuming are one step.     *)
(* The transport is an external object: when it settles a promise, whether *)
(* it drops its handlers when stopped and when it raises events are        *)
(* nondeterministic.                                                       *)
(***************************************************************************)
EXTENDS Naturals, Sequences, FiniteSets

(* ------------------------------ bounds -------------------------------- *)
\* Total number of listener registrations held by the emitter.
MaxRegs == 3
\* Number of bridge handler sets that may be registered on the transport
\* (counting the start() calls in flight that will register one).
MaxHandlerSets == 2
\* Number of stop() calls that may be in flight at once.
MaxInFlight == 1

(* --------------------------- event taxonomy --------------------------- *)
DomainEvents ==
    {"chatMessageReceived", "chatThreadPropertiesUpdated",
     "participantsAdded", "participantsRemoved"}

SignalEvents ==
    {"realTimeNotificationConnected", "realTimeNotificationDisconnected"}

ChatEventId == DomainEvents \cup SignalEvents

\* Low-level event names the bridge subscribes to on the transport.
TransportEvents == DomainEvents \cup {"connectionChanged"}

\* Values a connectionChanged event may carry; "Other" stands for every
\* value of the enumeration besides Connected and Disconnected.
ConnectionState == {"Connected", "Disconnected", "Other"}

\* Payloads of domain events (opaque to the client).
Payloads == {"p1", "p2"}

\* Kinds under which the application keeps listeners.  on() is called with
\* every kind; a call that registers is followed only for these kinds.
Subscribed ==
    {"participantsAdded", "realTimeNotificationConnected",
     "realTimeNotificationDisconnected"}

\* Listener closures, compared by identity.
Listeners == {"L1", "L2"}

\* Errors the transport may reject start()/stop() with.
TransportErrors == {"E1", "E2"}

NoListeners == [k \in ChatEventId |-> <<>>]

VARIABLES
    signalingClient,                  \* "transport" or "undefined"
    isRealtimeNotificationsStarted,   \* the lifecycle flag
    emitter,                          \* event kind -> sequence of listeners
    startAwait,     \* start() calls suspended at `await signalingClient.start()`
    stopAwait,      \* stop() calls suspended at `await signalingClient.stop()`
    transportHandlers,  \* bridge handler sets registered on the transport
    transportStarted,   \* the transport's last settled start/stop was a start
    releasesHandlers,   \* the transport drops its handlers when it stops
    last,           \* the step last taken and its outcome
    emitted,        \* emitter.emit calls made by the last transport event
    invoked,        \* listener invocations made by the last transport event
    escaped,        \* a listener's exception reached the transport
    reentrant       \* on/off calls made by listeners during that event

vars == <<signalingClient, isRealtimeNotificationsStarted, emitter,
          startAwait, stopAwait,
          transportHandlers, transportStarted, releasesHandlers,
          last, emitted, invoked, escaped, reentrant>>

session == <<signalingClient, isRealtimeNotificationsStarted, emitter>>
frames == <<startAwait, stopAwait>>
transport == <<transportHandlers, transportStarted, releasesHandlers>>

\* arg is the payload of a raised transport event, "none" for a call.
Step(op, event, arg, result) ==
    [op |-> op, event |-> event, arg |-> arg, result |-> result]

\* Every step that is not a transport event leaves no delivery behind.
NoDelivery ==
    /\ emitted' = <<>>
    /\ invoked' = <<>>
    /\ escaped' = FALSE
    /\ reentrant' = <<>>

(* ------------------------------ helpers ------------------------------- *)
TotalListeners(bus) ==
    Len(bus["chatMessageReceived"]) + Len(bus["chatThreadPropertiesUpdated"])
    + Len(bus["participantsAdded"]) + Len(bus["participantsRemoved"])
    + Len(bus["realTimeNotificationConnected"])
    + Len(bus["realTimeNotificationDisconnected"])

Range(s) == {s[i] : i \in 1..Len(s)}

\* Mutant: the capability checks are missing.
NoCapability_Never == FALSE

\* `this.signalingClient === undefined`
NoCapability == signalingClient = "undefined"

\* Mutant: the guard of on() without the exemption of the two signals.
OnRejected_NoExemption(event) == ~isRealtimeNotificationsStarted

\* Lines 139-143, the guard of on(): domain events need the flag, the two
\* signals do not.
OnRejected(event) ==
    /\ ~isRealtimeNotificationsStarted
    /\ event # "realTimeNotificationConnected"
    /\ event # "realTimeNotificationDisconnected"

\* EventEmitter.on: append, duplicates allowed.
AddListener(bus, event, listener) ==
    [bus EXCEPT ![event] = Append(@, listener)]

\* Mutant: the scan starts at the front of the array.
FirstIndexOf(list, listener) ==
    IF listener \in Range(list)
    THEN CHOOSE i \in 1..Len(list) :
            /\ list[i] = listener
            /\ \A j \in 1..(i-1) : list[j] # listener
    ELSE 0

\* The scan of removeListener: from the end of the array down to the first
\* match, that is the index of the last occurrence of listener in list, 0
\* when absent.
LastIndexOf(list, listener) ==
    IF listener \in Range(list)
    THEN CHOOSE i \in 1..Len(list) :
            /\ list[i] = listener
            /\ \A j \in (i+1)..Len(list) : list[j] # listener
    ELSE 0

RemoveAt(list, pos) ==
    [i \in 1..(Len(list) - 1) |-> IF i < pos THEN list[i] ELSE list[i + 1]]

\* EventEmitter.removeListener: scans from the end of the array and removes
\* one instance, the most recently added one; absent listener: no change.
RemoveListener(bus, event, listener) ==
    LET pos == LastIndexOf(bus[event], listener)
    IN  IF pos = 0 THEN bus
        ELSE [bus EXCEPT ![event] = RemoveAt(@, pos)]

\* Mutant: only the listeners of the domain events are removed.
RemoveAllListeners_KeepSignals(bus) ==
    [k \in ChatEventId |-> IF k \in SignalEvents THEN bus[k] ELSE <<>>]

\* EventEmitter.removeAllListeners() with no argument.
RemoveAllListeners(bus) == NoListeners

(* ------------------------------ Init ---------------------------------- *)
Init ==
    /\ signalingClient \in {"transport", "undefined"}
    /\ isRealtimeNotificationsStarted = FALSE
    /\ emitter = NoListeners
    /\ startAwait = 0
    /\ stopAwait = 0
    /\ transportHandlers = 0
    /\ transportStarted = FALSE
    /\ releasesHandlers \in (IF signalingClient = "undefined" THEN {FALSE} ELSE BOOLEAN)
    /\ last = Step("new", "none", "none", "ok")
    /\ emitted = <<>>
    /\ invoked = <<>>
    /\ escaped = FALSE
    /\ reentrant = <<>>

(* ------------------- startRealtimeNotifications ----------------------- *)
\* Mutant: start() does not look at the flag.
AlreadyStarted_Never == FALSE

\* Line 65: the flag alone decides whether start() is a no-op.
AlreadyStarted == isRealtimeNotificationsStarted

\* Lines 61-63: no transport, the call throws.
StartNoCapability ==
    /\ NoCapability
    /\ last' = Step("start", "none", "none", "CapabilityError")
    /\ NoDelivery
    /\ UNCHANGED <<session, frames, transport>>

\* Lines 65-67: already started, the call returns at once.
StartNoOp ==
    /\ ~NoCapability
    /\ AlreadyStarted
    /\ last' = Step("start", "none", "none", "ok")
    /\ NoDelivery
    /\ UNCHANGED <<session, frames, transport>>

\* Lines 69-70: set the flag, call the transport's start, suspend.
StartBegin ==
    /\ ~NoCapability
    /\ ~AlreadyStarted
    /\ transportHandlers + startAwait < MaxHandlerSets
    /\ isRealtimeNotificationsStarted' = TRUE
    /\ startAwait' = startAwait + 1
    /\ last' = Step("start", "none", "none", "pending")
    /\ NoDelivery
    /\ UNCHANGED <<signalingClient, emitter, stopAwait, transport>>

\* start() from its entry to its first suspension or return.
StartCall == StartNoCapability \/ StartNoOp \/ StartBegin

\* Mutant: every low-level event name is subscribed twice.
SubscribeToSignalingEvents_Twice(n) == n + 2

\* Lines 191-219: one signalingClient.on per low-level event name, that is
\* one more set of bridge handlers on the transport.
SubscribeToSignalingEvents(n) == n + 1

\* Lines 70-71: the transport resolves the promise of a pending start; the
\* resumed start() installs the bridge and returns.
StartResume ==
    /\ startAwait > 0
    /\ startAwait' = startAwait - 1
    /\ transportStarted' = TRUE
    /\ transportHandlers' = SubscribeToSignalingEvents(transportHandlers)
    /\ last' = Step("startReturn", "none", "none", "ok")
    /\ NoDelivery
    /\ UNCHANGED <<session, stopAwait, releasesHandlers>>

\* Mutant: the bridge is installed although the transport's start failed.
StartRejected_Bridges(e) ==
    /\ startAwait > 0
    /\ startAwait' = startAwait - 1
    /\ transportHandlers' = transportHandlers + 1
    /\ last' = Step("startReturn", "none", "none", e)
    /\ NoDelivery
    /\ UNCHANGED <<session, stopAwait, transportStarted, releasesHandlers>>

\* Line 70: the transport rejects with e; the await throws e and start()
\* ends there.
StartRejected(e) ==
    /\ startAwait > 0
    /\ startAwait' = startAwait - 1
    /\ last' = Step("startReturn", "none", "none", e)
    /\ NoDelivery
    /\ UNCHANGED <<session, stopAwait, transport>>

(* -------------------- stopRealtimeNotifications ----------------------- *)
\* Lines 79-81.
StopNoCapability ==
    /\ NoCapability
    /\ last' = Step("stop", "none", "none", "CapabilityError")
    /\ NoDelivery
    /\ UNCHANGED <<session, frames, transport>>

\* Mutant: stop() returns at once when the flag is clear, as start() does
\* when it is set.
StopBegin_SkipsWhenIdle ==
    /\ ~NoCapability
    /\ IF isRealtimeNotificationsStarted
       THEN /\ stopAwait < MaxInFlight
            /\ isRealtimeNotificationsStarted' = FALSE
            /\ stopAwait' = stopAwait + 1
            /\ last' = Step("stop", "none", "none", "pending")
            /\ NoDelivery
            /\ UNCHANGED <<signalingClient, emitter, startAwait, transport>>
       ELSE /\ last' = Step("stop", "none", "none", "ok")
            /\ NoDelivery
            /\ UNCHANGED <<session, frames, transport>>

\* Lines 83-84: clear the flag, call the transport's stop, suspend.
StopBegin ==
    /\ ~NoCapability
    /\ stopAwait < MaxInFlight
    /\ isRealtimeNotificationsStarted' = FALSE
    /\ stopAwait' = stopAwait + 1
    /\ last' = Step("stop", "none", "none", "pending")
    /\ NoDelivery
    /\ UNCHANGED <<signalingClient, emitter, startAwait, transport>>

\* stop() from its entry to its first suspension or throw.
StopCall == StopNoCapability \/ StopBegin

\* What stopping does to the handlers registered on the transport.
HandlersAfterStop == IF releasesHandlers THEN 0 ELSE transportHandlers

\* Lines 84-85: the transport resolves the promise of a pending stop; the
\* resumed stop() clears the emitter and returns.
StopResume ==
    /\ stopAwait > 0
    /\ stopAwait' = stopAwait - 1
    /\ transportStarted' = FALSE
    /\ transportHandlers' = HandlersAfterStop
    /\ emitter' = RemoveAllListeners(emitter)
    /\ last' = Step("stopReturn", "none", "none", "ok")
    /\ NoDelivery
    /\ UNCHANGED <<signalingClient, isRealtimeNotificationsStarted,
                   startAwait, releasesHandlers>>

\* Mutant: the listeners are removed in a finally block.
StopRejected_Clears(e) ==
    /\ stopAwait > 0
    /\ stopAwait' = stopAwait - 1
    /\ emitter' = RemoveAllListeners(emitter)
    /\ last' = Step("stopReturn", "none", "none", e)
    /\ NoDelivery
    /\ UNCHANGED <<signalingClient, isRealtimeNotificationsStarted,
                   startAwait, transport>>

\* Line 84: the transport rejects with e; the await throws e and stop()
\* ends there.
StopRejected(e) ==
    /\ stopAwait > 0
    /\ stopAwait' = stopAwait - 1
    /\ last' = Step("stopReturn", "none", "none", e)
    /\ NoDelivery
    /\ UNCHANGED <<session, startAwait, transport>>

(* ------------------------------ on / off ------------------------------ *)
\* Mutant: a successful on() marks the notifications as started.
On_MarksStarted(event, listener) ==
    /\ NoDelivery
    /\ UNCHANGED <<signalingClient, frames, transport>>
    /\ IF NoCapability
       THEN /\ last' = Step("on", event, "none", "CapabilityError")
            /\ UNCHANGED <<emitter, isRealtimeNotificationsStarted>>
       ELSE IF OnRejected(event)
       THEN /\ last' = Step("on", event, "none", "PreconditionError")
            /\ UNCHANGED <<emitter, isRealtimeNotificationsStarted>>
       ELSE /\ event \in Subscribed
            /\ TotalListeners(emitter) < MaxRegs
            /\ emitter' = AddListener(emitter, event, listener)
            /\ isRealtimeNotificationsStarted' = TRUE
            /\ last' = Step("on", event, "none", "ok")

\* Lines 135-150.
On(event, listener) ==
    /\ NoDelivery
    /\ UNCHANGED <<signalingClient, isRealtimeNotificationsStarted, frames,
                   transport>>
    /\ IF NoCapability
       THEN /\ last' = Step("on", event, "none", "CapabilityError")
            /\ UNCHANGED emitter
       ELSE IF OnRejected(event)
       THEN /\ last' = Step("on", event, "none", "PreconditionError")
            /\ UNCHANGED emitter
       ELSE /\ event \in Subscribed
            /\ TotalListeners(emitter) < MaxRegs
            /\ emitter' = AddListener(emitter, event, listener)
            /\ last' = Step("on", event, "none", "ok")

\* Lines 183-189.
Off(event, listener) ==
    /\ NoDelivery
    /\ UNCHANGED <<signalingClient, isRealtimeNotificationsStarted, frames,
                   transport>>
    /\ IF NoCapability
       THEN /\ last' = Step("off", event, "none", "CapabilityError")
            /\ UNCHANGED emitter
       ELSE /\ emitter' = RemoveListener(emitter, event, listener)
            /\ last' = Step("off", event, "none", "ok")

(* --------------------------- event delivery --------------------------- *)
Emission(event, payload) == [event |-> event, payload |-> payload]

\* Mutant: a plain else in place of the else-if on Disconnected.
Translate_ElseDisconnected(ev, payload) ==
    IF ev = "connectionChanged"
    THEN IF payload = "Connected"
         THEN <<Emission("realTimeNotificationConnected", "none")>>
         ELSE <<Emission("realTimeNotificationDisconnected", "none")>>
    ELSE <<Emission(ev, payload)>>

\* Mutant: the handler of participantsRemoved, copied from the one of
\* participantsAdded, still emits participantsAdded.
Translate_CopyPaste(ev, payload) ==
    IF ev = "connectionChanged"
    THEN IF payload = "Connected"
         THEN <<Emission("realTimeNotificationConnected", "none")>>
         ELSE IF payload = "Disconnected"
         THEN <<Emission("realTimeNotificationDisconnected", "none")>>
         ELSE <<>>
    ELSE IF ev = "participantsRemoved"
    THEN <<Emission("participantsAdded", payload)>>
    ELSE <<Emission(ev, payload)>>

\* Lines 196-218: what one set of bridge handlers emits for one low-level
\* event: the two connection states map to the two signals, every other
\* connection state to nothing, a domain event to itself with its payload.
Translate(ev, payload) ==
    IF ev = "connectionChanged"
    THEN IF payload = "Connected"
         THEN <<Emission("realTimeNotificationConnected", "none")>>
         ELSE IF payload = "Disconnected"
         THEN <<Emission("realTimeNotificationDisconnected", "none")>>
         ELSE <<>>
    ELSE <<Emission(ev, payload)>>

\* EventEmitter.emit: the listeners registered under the event are called
\* in array order with the arguments of emit; a listener that throws ends
\* the loop and the exception leaves emit.  t is the position of the
\* listener that throws, 0 when none does.
EmitCalls(bus, em, t) ==
    LET list == bus[em.event]
        n == IF t = 0 THEN Len(list) ELSE t
    IN  [i \in 1..n |-> [listener |-> list[i], event |-> em.event,
                        payload |-> em.payload]]

\* The listener invocations made by handler sets i..runs, thr[i] being the
\* position of the throwing listener in the emit of handler set i.  Handler
\* set i emits on bus, the later ones on next.
RECURSIVE Dispatch(_, _, _, _, _, _)
Dispatch(i, runs, bus, next, ems, thr) ==
    IF i > runs \/ ems = <<>> THEN <<>>
    ELSE EmitCalls(bus, ems[1], thr[i])
         \o Dispatch(i + 1, runs, next, next, ems, thr)

PayloadsOf(ev) == IF ev = "connectionChanged" THEN ConnectionState ELSE Payloads

\* How many of its n handler sets the transport calls when the listener
\* at position thr[i] throws in handler set i: all of them, or those up to
\* the first one an exception leaves.
RunsOf(thr, n) ==
    LET throwers == {i \in 1..n : thr[i] # 0}
    IN  IF throwers = {} THEN {n}
        ELSE {n, CHOOSE i \in throwers : \A j \in throwers : i <= j}

\* What a listener may do with the client from inside its invocation for
\* kind k: nothing, or one call of on(k, l) or off(k, l).  The caller is
\* the listener registered first under k and makes the call the first time
\* it is invoked; a call of on() that would throw is a listener that throws.
ListenerCalls(bus, k) ==
    IF bus[k] = <<>> THEN {<<>>}
    ELSE {<<>>} \cup
         {<<[by |-> bus[k][1], op |-> op, listener |-> l]>> :
             op \in (IF OnRejected(k) \/ TotalListeners(bus) >= MaxRegs
                     THEN {"off"} ELSE {"on", "off"}),
             l \in Listeners}

\* The call as on() and off() carry it out on the emitter.
ApplyCall(bus, k, call) ==
    IF call.op = "on"
    THEN AddListener(bus, k, call.listener)
    ELSE RemoveListener(bus, k, call.listener)

\* The listeners that may throw during one transport event that reaches n
\* handler sets, the first emitting to len listeners and the later ones to
\* next listeners: none, or the one at position p of the emit of handler
\* set f (thr[f] = p).
Throws(n, len, next) ==
    {[i \in 1..n |-> 0]} \cup
    UNION {{[i \in 1..n |-> IF i = f THEN p ELSE 0] :
               p \in 1..(IF f = 1 THEN len ELSE next)} : f \in 1..n}

\* The transport raises low-level event ev: it calls each handler registered
\* for ev by the bridge.  A handler calls emit synchronously; emit calls the
\* listeners of a copy of the array, so a call of on() or off() made by a
\* listener changes the emitter and not the emit in progress.  An exception
\* thrown by a listener leaves the handler, and the transport then either
\* goes on with its other handlers or gives up.
TransportRaise(ev, payload) ==
    /\ signalingClient = "transport"
    /\ last' = Step("raise", ev, payload, "ok")
    /\ UNCHANGED <<signalingClient, isRealtimeNotificationsStarted, frames,
                   transport>>
    /\ LET ems == Translate(ev, payload)
           k == IF ems = <<>> THEN "participantsAdded" ELSE ems[1].event
           list == IF ems = <<>> THEN <<>> ELSE emitter[k]
       IN  \E calls \in (IF ems = <<>> \/ transportHandlers = 0
                         THEN {<<>>} ELSE ListenerCalls(emitter, k)) :
             LET bus == IF calls = <<>> THEN emitter
                        ELSE ApplyCall(emitter, k, calls[1])
                 next == IF ems = <<>> THEN <<>> ELSE bus[k]
             IN  \E thr \in Throws(transportHandlers, Len(list), Len(next)) :
                 \E runs \in RunsOf(thr, transportHandlers) :
                    /\ emitted' = [i \in 1..(runs * Len(ems)) |-> ems[1]]
                    /\ invoked' = Dispatch(1, runs, emitter, bus, ems, thr)
                    /\ escaped' = (\E i \in 1..runs : thr[i] # 0)
                    /\ reentrant' = calls
                    /\ emitter' = bus

(* ------------------------------- Next --------------------------------- *)
Next ==
    \/ StartCall
    \/ StartResume
    \/ \E e \in TransportErrors : StartRejected(e)
    \/ StopCall
    \/ StopResume
    \/ \E e \in TransportErrors : StopRejected(e)
    \/ \E event \in ChatEventId, listener \in Listeners : On(event, listener)
    \/ \E event \in ChatEventId, listener \in Listeners : Off(event, listener)
    \/ \E ev \in TransportEvents : \E payload \in PayloadsOf(ev) :
          TransportRaise(ev, payload)

Spec == Init /\ [][Next]_vars

\* The session over a transport whose start and stop never fail.
NextResolving ==
    \/ StartCall
    \/ StartResume
    \/ StopCall
    \/ StopResume
    \/ \E event \in ChatEventId, listener \in Listeners : On(event, listener)
    \/ \E event \in ChatEventId, listener \in Listeners : Off(event, listener)
    \/ \E ev \in TransportEvents : \E payload \in PayloadsOf(ev) :
          TransportRaise(ev, payload)

SpecResolving == Init /\ [][NextResolving]_vars

\* No start() or stop() is suspended.
Quiescent == startAwait = 0 /\ stopAwait = 0

\* The session used as its contract asks: the transport releases its
\* handlers when stopped and never fails, and start() and stop() are called
\* only when no other of them is in flight.
InitReleasing == Init /\ (signalingClient = "transport" => releasesHandlers)

NextSequential ==
    \/ Quiescent /\ StartCall
    \/ StartResume
    \/ Quiescent /\ StopCall
    \/ StopResume
    \/ \E event \in ChatEventId, listener \in Listeners : On(event, listener)
    \/ \E event \in ChatEventId, listener \in Listeners : Off(event, listener)
    \/ \E ev \in TransportEvents : \E payload \in PayloadsOf(ev) :
          TransportRaise(ev, payload)

SpecSequential == InitReleasing /\ [][NextSequential]_vars

(* ====================================================================== *)
(* Properties                                                             *)
(* ====================================================================== *)
Capable == signalingClient = "transport"
Idle == ~isRealtimeNotificationsStarted
Active == isRealtimeNotificationsStarted

ListenersOf(calls) == {calls[i].listener : i \in 1..Len(calls)}

\* C1: with a transport, on(kind, listener) for a domain kind called while
\* the flag is clear fails with the precondition error and leaves the
\* emitter as it was; on() for either lifecycle signal succeeds and appends
\* the listener whatever the flag is.
C1_OnGuard ==
    [][(Capable /\ last'.op = "on") =>
         LET event == last'.event
         IN  \A listener \in Listeners :
               On(event, listener) =>
                  IF event \in DomainEvents /\ Idle
                  THEN /\ last'.result = "PreconditionError"
                       /\ emitter' = emitter
                  ELSE /\ last'.result = "ok"
                       /\ emitter'[event] = Append(emitter[event], listener)
                       /\ \A k \in ChatEventId \ {event} :
                             emitter'[k] = emitter[k]]_vars

\* A domain subscription has just been refused on a session that never
\* installed a bridge and holds a signal listener.
C1_Witness ==
    /\ Capable /\ Idle
    /\ last.op = "on" /\ last.event \in DomainEvents
    /\ last.result = "PreconditionError"
    /\ transportHandlers = 0 /\ ~releasesHandlers
    /\ emitter["realTimeNotificationConnected"] # <<>>

\* C2: a listener of a domain event is invoked only while the flag is set.
\* (A transport event changes neither the flag nor the frames, so the state
\* after the event shows the flag the listeners were invoked under.)
C2_DeliveryOnlyWhileActive ==
    \A i \in 1..Len(invoked) :
        invoked[i].event \in DomainEvents => Active

\* C3: when a stop() returns, no listener of any kind is left; a transport
\* event for a kind that holds no listener invokes nothing; with the bridge
\* installed once, a transport event for a kind that holds the single
\* listener L invokes L exactly once, with the payload of the event.
C3_Teardown ==
    [][/\ (last'.op = "stopReturn" /\ StopResume) =>
             \A k \in ChatEventId : emitter'[k] = <<>>
       /\ (last'.op = "raise" /\ last'.event \in DomainEvents) =>
             LET ev == last'.event
                 payload == last'.arg
             IN  /\ emitter[ev] = <<>> => invoked' = <<>>
                 /\ \A l \in Listeners :
                      (transportHandlers = 1 /\ emitter[ev] = <<l>>) =>
                         invoked' = <<[listener |-> l, event |-> ev,
                                       payload |-> payload]>>]_vars

\* After a completed stop() the transport, which kept its handlers, raised
\* participantsAdded: the bridge emitted it and no listener was invoked.
C3_Witness ==
    /\ last.op = "raise" /\ last.event = "participantsAdded"
    /\ Idle /\ stopAwait = 0 /\ startAwait = 0
    /\ transportHandlers = 1 /\ ~transportStarted
    /\ Len(emitted) = 1
    /\ invoked = <<>>
    /\ emitter = NoListeners

\* C4: a start() called while the flag is set (an earlier start() set it and
\* no stop() cleared it) changes nothing and returns successfully; the
\* start() that finds the flag clear sets it and calls the transport's start
\* once, and its resumption installs one set of bridge handlers; only a
\* stop() clears the flag.
C4_StartIdempotent ==
    [][/\ (Capable /\ Active /\ last'.op = "start" /\ StartCall) =>
             /\ UNCHANGED <<session, frames, transport>>
             /\ last'.result = "ok"
       /\ (Idle /\ last'.op = "start" /\ StartBegin) =>
             /\ Active'
             /\ startAwait' = startAwait + 1
             /\ UNCHANGED <<stopAwait, transport, emitter>>
       /\ (last'.op = "startReturn" /\ StartResume) =>
             /\ transportHandlers' = transportHandlers + 1
             /\ startAwait' = startAwait - 1
             /\ UNCHANGED <<session, stopAwait>>
       /\ (Active /\ Idle') => StopBegin]_vars

\* A start() has just returned as a no-op after the first one completed.
C4_Witness ==
    /\ last.op = "start" /\ last.result = "ok"
    /\ Active /\ startAwait = 0 /\ stopAwait = 0
    /\ transportStarted /\ transportHandlers = 1

\* C5: without a transport every call fails with the capability error and
\* the session stays as constructed: flag clear, emitter empty, nothing in
\* flight, nothing registered on a transport.
C5_NoCapability ==
    ~Capable =>
        /\ Idle
        /\ emitter = NoListeners
        /\ startAwait = 0 /\ stopAwait = 0
        /\ transportHandlers = 0 /\ ~transportStarted
        /\ emitted = <<>> /\ invoked = <<>>
        /\ last.op \in {"new", "start", "stop", "on", "off"}
        /\ last.op # "new" => last.result = "CapabilityError"

\* off() has just failed on a session without a transport.
C5_Witness ==
    /\ ~Capable
    /\ last.op = "off" /\ last.result = "CapabilityError"

\* C6: when an event of kind k is published while the flag is set, the
\* listeners invoked are exactly the listeners registered under k at that
\* time, and all of them are invoked for k.
C6_InvokedAreRegistered ==
    [][(Active /\ last'.op = "raise" /\ emitted' # <<>>) =>
         LET k == emitted'[1].event
         IN  /\ ListenersOf(invoked') = Range(emitter[k])
             /\ \A i \in 1..Len(invoked') : invoked'[i].event = k]_vars

\* C7: whatever a listener does, every listener registered under the
\* published kind is invoked and no exception reaches the transport.
C7_ListenerIsolation ==
    [][last'.op = "raise" =>
         /\ ~escaped'
         /\ emitted' # <<>> =>
               Range(emitter[emitted'[1].event]) \subseteq ListenersOf(invoked')]_vars

\* C8: for a connectionChanged event, every bridge handler the transport
\* calls emits realTimeNotificationConnected once and nothing else when the
\* event carries Connected, realTimeNotificationDisconnected once and
\* nothing else when it carries Disconnected, and nothing for any other
\* value; with the bridge installed once that is exactly one emission,
\* respectively none.
C8_ConnectionTranslation ==
    [][(last'.op = "raise" /\ last'.event = "connectionChanged") =>
         LET state == last'.arg
             signal == IF state = "Connected"
                       THEN "realTimeNotificationConnected"
                       ELSE "realTimeNotificationDisconnected"
         IN  IF state \in {"Connected", "Disconnected"}
             THEN /\ \A i \in 1..Len(emitted') :
                        emitted'[i] = [event |-> signal, payload |-> "none"]
                  /\ Len(emitted') <= transportHandlers
                  /\ transportHandlers >= 1 => Len(emitted') >= 1
                  /\ ~escaped' => Len(emitted') = transportHandlers
                  /\ \A i \in 1..Len(invoked') : invoked'[i].event = signal
             ELSE /\ emitted' = <<>>
                  /\ invoked' = <<>>]_vars

\* The bridge, installed once, has just turned Connected into one emission
\* of realTimeNotificationConnected, which reached a listener.
C8_Witness ==
    /\ last.op = "raise" /\ last.event = "connectionChanged"
    /\ last.arg = "Connected"
    /\ transportHandlers = 1
    /\ emitted = <<[event |-> "realTimeNotificationConnected",
                    payload |-> "none"]>>
    /\ Len(invoked) = 1

\* r is list without its element at position pos.
IsRemovalAt(list, r, pos) ==
    /\ Len(r) = Len(list) - 1
    /\ \A i \in 1..Len(r) : r[i] = IF i < pos THEN list[i] ELSE list[i + 1]

\* C9 as stated: with a transport, off(kind, listener) never fails; a
\* registered listener loses its FIRST registration under kind, every other
\* registration keeps its place; an unregistered one changes nothing.
C9_OffRemovesFirst ==
    [][(Capable /\ last'.op = "off") =>
         \A event \in {last'.event}, listener \in Listeners :
            Off(event, listener) =>
               /\ last'.result = "ok"
               /\ \A k \in ChatEventId \ {event} : emitter'[k] = emitter[k]
               /\ IF listener \notin Range(emitter[event])
                  THEN emitter'[event] = emitter[event]
                  ELSE \E pos \in 1..Len(emitter[event]) :
                         /\ emitter[event][pos] = listener
                         /\ \A j \in 1..(pos - 1) : emitter[event][j] # listener
                         /\ IsRemovalAt(emitter[event], emitter'[event], pos)]_vars

\* C9 amended: with a transport, off(kind, listener) never fails, whatever
\* the flag is; a registered listener loses its LAST (most recently added)
\* registration under kind, every other registration keeps its place; an
\* unregistered one changes nothing.
C9_OffRemovesLast ==
    [][(Capable /\ last'.op = "off") =>
         \A event \in {last'.event}, listener \in Listeners :
            Off(event, listener) =>
               /\ last'.result = "ok"
               /\ \A k \in ChatEventId \ {event} : emitter'[k] = emitter[k]
               /\ IF listener \notin Range(emitter[event])
                  THEN emitter'[event] = emitter[event]
                  ELSE \E pos \in 1..Len(emitter[event]) :
                         /\ emitter[event][pos] = listener
                         /\ \A j \in (pos + 1)..Len(emitter[event]) :
                               emitter[event][j] # listener
                         /\ IsRemovalAt(emitter[event], emitter'[event], pos)]_vars

\* off() has just been called for participantsAdded with L1 or L2 and has
\* left both registered, L1 before L2: it removed one registration of a
\* listener that was registered twice.
C9_Witness ==
    /\ Capable
    /\ last.op = "off" /\ last.event = "participantsAdded"
    /\ last.result = "ok"
    /\ emitter["participantsAdded"] = <<"L1", "L2">>

\* C10: when the transport rejects a pending start (stop) with e, that
\* start() (stop()) ends with e, the transport is not called again (the
\* call is no longer pending and no other call has become so), and nothing
\* else changes: a failed start() installs no bridge handlers.  Each start()
\* that goes to the transport and each stop() calls it once.
C10_TransportFailure ==
    [][/\ last'.op = "startReturn" =>
             \A e \in TransportErrors :
                StartRejected(e) =>
                   /\ last'.result = e
                   /\ startAwait' = startAwait - 1
                   /\ UNCHANGED <<session, stopAwait, transport>>
       /\ last'.op = "stopReturn" =>
             \A e \in TransportErrors :
                StopRejected(e) =>
                   /\ last'.result = e
                   /\ stopAwait' = stopAwait - 1
                   /\ UNCHANGED <<session, startAwait, transport>>
       /\ (last'.op = "start" /\ last'.result = "pending") =>
             /\ startAwait' = startAwait + 1
             /\ stopAwait' = stopAwait
       /\ (last'.op = "stop" /\ last'.result = "pending") =>
             /\ stopAwait' = stopAwait + 1
             /\ startAwait' = startAwait]_vars

\* The only start() made has just failed with the transport's error E1: no
\* bridge handler is installed and no call is pending.
C10_Witness ==
    /\ last.op = "startReturn" /\ last.result = "E1"
    /\ transportHandlers = 0 /\ ~transportStarted
    /\ startAwait = 0 /\ stopAwait = 0

\* C11: in every state, the flag being set implies that the transport's
\* start has completed and the bridge handlers are installed (start() sets
\* the flag last); and on() for a domain kind issued while the transport's
\* start is pending fails with the precondition error.
C11_ActiveImpliesReady ==
    /\ Active => (transportStarted /\ transportHandlers >= 1)
    /\ (last.op = "on" /\ last.event \in DomainEvents /\ startAwait > 0) =>
          last.result = "PreconditionError"

\* C12: for a domain event raised by the transport, every bridge handler
\* the transport calls publishes it once, under the same kind and with the
\* same payload, within the transport's callback (the step that raises the
\* event); every listener invoked receives that kind and payload.  With the
\* bridge installed once the publications of the step are exactly the one
\* event raised, so the publications follow the transport's events one for
\* one and in order.
C12_PassThrough ==
    [][(last'.op = "raise" /\ last'.event \in DomainEvents) =>
         LET em == [event |-> last'.event, payload |-> last'.arg]
         IN  /\ \A i \in 1..Len(emitted') : emitted'[i] = em
             /\ Len(emitted') <= transportHandlers
             /\ transportHandlers >= 1 => Len(emitted') >= 1
             /\ ~escaped' => Len(emitted') = transportHandlers
             /\ transportHandlers = 1 => emitted' = <<em>>
             /\ \A i \in 1..Len(invoked') :
                   /\ invoked'[i].event = em.event
                   /\ invoked'[i].payload = em.payload]_vars

\* The bridge, installed once on a started session, has just re-published
\* participantsRemoved with payload p2; nobody listens to that kind.
C12_Witness ==
    /\ last.op = "raise" /\ last.event = "participantsRemoved"
    /\ last.arg = "p2"
    /\ Active /\ transportStarted /\ transportHandlers = 1
    /\ emitted = <<[event |-> "participantsRemoved", payload |-> "p2"]>>
    /\ invoked = <<>>

\* C13: when the transport reports Connected while a start() is waiting for
\* the transport's start, every listener registered under
\* realTimeNotificationConnected is invoked.
C13_ConnectedDuringStart ==
    [][(/\ last'.op = "raise" /\ last'.event = "connectionChanged"
        /\ last'.arg = "Connected"
        /\ startAwait > 0) =>
          Range(emitter["realTimeNotificationConnected"])
             \subseteq ListenersOf(invoked')]_vars

\* C14: on a session with a transport, stop() does the same whether the
\* flag is set or clear: it clears the flag and calls the transport's stop
\* (the call becomes pending) with the listeners still in place, and when
\* the transport's stop completes it removes the listeners of all six
\* kinds and touches nothing else of the session.
C14_StopFromEitherState ==
    [][/\ (Capable /\ last'.op = "stop") =>
             /\ last'.result = "pending"
             /\ Idle'
             /\ stopAwait' = stopAwait + 1
             /\ emitter' = emitter
             /\ UNCHANGED <<startAwait, transport>>
       /\ (last'.op = "stopReturn" /\ last'.result = "ok") =>
             /\ \A k \in ChatEventId : emitter'[k] = <<>>
             /\ stopAwait' = stopAwait - 1
             /\ UNCHANGED <<isRealtimeNotificationsStarted, startAwait>>]_vars

\* stop() has just called the transport's stop on a session whose transport
\* was never started and which holds a listener of a lifecycle signal.
C14_Witness ==
    /\ last.op = "stop" /\ last.result = "pending"
    /\ Idle /\ stopAwait = 1 /\ startAwait = 0
    /\ ~transportStarted /\ transportHandlers = 0 /\ ~releasesHandlers
    /\ emitter["realTimeNotificationConnected"] = <<"L1">>

\* C15 (checked over a transport that never fails): with a transport that
\* releases its handlers when stopped, a stop() called while a start() is in
\* flight never leaves the session, once both calls have finished, with the
\* flag clear and bridge handlers installed, and the bridge is never
\* installed more than once.
C15_ExplicitPolicy ==
    releasesHandlers =>
        /\ (Idle /\ startAwait = 0 /\ stopAwait = 0) => transportHandlers = 0
        /\ transportHandlers <= 1

\* C16: one emission of kind k (the bridge installed once, one transport
\* event) invokes the listeners registered under k each once and in the
\* order of their registration: the sequence of listeners invoked is the
\* sequence registered.
C16_RegistrationOrder ==
    [][(last'.op = "raise" /\ transportHandlers = 1 /\ emitted' # <<>>) =>
         LET k == emitted'[1].event
         IN  /\ Len(invoked') = Len(emitter[k])
             /\ \A i \in 1..Len(invoked') :
                   invoked'[i].listener = emitter[k][i]]_vars

\* C17: when a listener calls on() or off() for the kind k it is being
\* invoked for (the bridge installed once), every listener registered under
\* k when the event was published is still invoked once for it, and
\* afterwards the emitter holds exactly the requested change: on(k, l) has
\* appended l, off(k, l) has removed one registration of l if there was one,
\* the other kinds are as they were.
C17_ReentrantSafe ==
    [][(last'.op = "raise" /\ transportHandlers = 1 /\ reentrant' # <<>>) =>
         LET k == emitted'[1].event
             call == reentrant'[1]
             l == call.listener
         IN  /\ Len(invoked') = Len(emitter[k])
             /\ \A i \in 1..Len(emitter[k]) :
                   invoked'[i].listener = emitter[k][i]
             /\ \A j \in ChatEventId \ {k} : emitter'[j] = emitter[j]
             /\ IF call.op = "on"
                THEN emitter'[k] = Append(emitter[k], l)
                ELSE IF l \in Range(emitter[k])
                THEN \E pos \in 1..Len(emitter[k]) :
                        /\ emitter[k][pos] = l
                        /\ IsRemovalAt(emitter[k], emitter'[k], pos)
                ELSE emitter'[k] = emitter[k]]_vars

\* C18: whenever a start() has just returned successfully, as a no-op or
\* after its await, and no other start() or stop() is in flight, the
\* transport's start has completed and the bridge handlers are installed;
\* so a start() that follows a failed one calls the transport again.
C18_StartedWhenReturned ==
    (/\ last.op \in {"start", "startReturn"} /\ last.result = "ok"
     /\ startAwait = 0 /\ stopAwait = 0) =>
        (transportStarted /\ transportHandlers >= 1)

\* C19 (checked over a transport that releases its handlers when stopped,
\* with start() and stop() completing one after the other): the bridge is
\* never installed more than once, it is installed exactly when the
\* transport is started, and a transport event of a kind that holds the
\* single listener L invokes L once when the bridge is installed and not at
\* all otherwise; no listener is invoked more often than it is registered.
C19_SingleBridge ==
    [][/\ transportHandlers' <= 1
       /\ transportHandlers' = (IF transportStarted' THEN 1 ELSE 0)
       /\ (last'.op = "raise" /\ emitted' # <<>>) =>
             LET k == emitted'[1].event
             IN  /\ Len(invoked') <= Len(emitter[k])
                 /\ \A l \in Listeners :
                       emitter[k] = <<l>> =>
                          /\ Len(invoked') = 1
                          /\ invoked'[1].listener = l]_vars

\* On a started session whose transport releases its handlers, the
\* transport has just raised participantsAdded and the only listener of
\* that kind, L1, was invoked once.
C19_Witness ==
    /\ releasesHandlers
    /\ last.op = "raise" /\ last.event = "participantsAdded"
    /\ Active /\ Quiescent
    /\ transportStarted /\ transportHandlers = 1
    /\ Len(invoked) = 1 /\ invoked[1].listener = "L1"
    /\ emitter["participantsAdded"] = <<"L1">>
    /\ emitter["realTimeNotificationConnected"] = <<"L2">>
    /\ reentrant = <<>>

\* C20: on a session with a transport, stop() clears the flag before it
\* calls the transport; when the transport's stop fails with e, stop() ends
\* with e and changes neither the flag nor the emitter, so a stop() that
\* fails right after its call leaves the flag clear and the listeners in
\* place; on() for a domain kind that follows the failure, the flag still
\* clear, fails with the precondition error and registers nothing.
C20_StopFailure ==
    [][/\ (Capable /\ last'.op = "stop") => Idle'
       /\ last'.op = "stopReturn" =>
             \A e \in TransportErrors :
                StopRejected(e) =>
                   /\ last'.result = e
                   /\ emitter' = emitter
                   /\ UNCHANGED isRealtimeNotificationsStarted
                   /\ last.op = "stop" => Idle'
       /\ (/\ last.op = "stopReturn" /\ last.result \in TransportErrors
           /\ Idle
           /\ last'.op = "on" /\ last'.event \in DomainEvents) =>
             /\ last'.result = "PreconditionError"
             /\ emitter' = emitter]_vars

\* The transport has just failed the only stop() in flight: the flag is
\* clear and the listener registered while started is still there.
C20_Witness ==
    /\ last.op = "stopReturn" /\ last.result = "E2"
    /\ Idle /\ Quiescent
    /\ transportStarted /\ transportHandlers = 1
    /\ emitter["participantsAdded"] = <<"L1">>

\* C21: a call of on() or off() changes neither the flag nor the calls in
\* flight at the transport nor the handlers registered on it; a call that
\* succeeds changes at most the registrations under its own kind, a call
\* that fails changes no registration.  The same holds of a call made by a
\* listener during its invocation.
C21_OnOffFrame ==
    [][/\ last'.op \in {"on", "off"} =>
             /\ UNCHANGED <<signalingClient, isRealtimeNotificationsStarted,
                            frames, transport>>
             /\ \A k \in ChatEventId \ {last'.event} : emitter'[k] = emitter[k]
             /\ last'.result # "ok" => emitter' = emitter
       /\ (last'.op = "raise" /\ reentrant' # <<>>) =>
             /\ UNCHANGED <<signalingClient, isRealtimeNotificationsStarted,
                            frames, transport>>
             /\ \A k \in ChatEventId \ {emitted'[1].event} :
                   emitter'[k] = emitter[k]]_vars

\* on() has just registered L2 under participantsAdded on a started session
\* that holds L1 under realTimeNotificationConnected.
C21_Witness ==
    /\ last.op = "on" /\ last.event = "participantsAdded"
    /\ last.result = "ok"
    /\ Active /\ Quiescent
    /\ transportStarted /\ transportHandlers = 1
    /\ emitter["participantsAdded"] = <<"L2">>
    /\ emitter["realTimeNotificationConnected"] = <<"L1">>

====
